---- MODULE Spec2Model ----
(***************************************************************************)
(* BenchmarkQueue (bench/src/server/queue.ts): an in-memory, single-flight *)
(* queue of benchmark jobs.  Every job spawns one child process, guarded   *)
(* by a timeout that sends SIGTERM and, after a grace window, SIGKILL.     *)
(*                                                                         *)
(* One action of the model is one macrotask of the Node.js event loop: an  *)
(* addBenchmark call, a timer callback, a child-process event or a         *)
(* setImmediate callback, together with the promise continuations          *)
(* (microtasks) that it triggers.  Subscribers of the four events are part *)
(* of the environment: an emission may return normally or throw.  A        *)
(* `failed` subscriber that throws changes no state of the queue (the      *)
(* finally block still runs), so that choice is not drawn.                 *)
(*                                                                         *)
(* The pure functions of the program (extractJsonResult of queue.ts,       *)
(* core/benchmark-id.ts, core/metrics.ts) have specifications of their     *)
(* own: the initial state draws the arguments of one call, the action      *)
(* makes the call and records what it returned.                            *)
(***************************************************************************)
EXTENDS Integers, Sequences, FiniteSets, TLC

\* ---------------------------------------------------------------- bounds
MaxJobs == 2
TickMs == 5000

\* ------------------------------------------------------ program constants
\* GRACE_MS: the delay of the SIGKILL timer.  MS_PER_SECOND: the divisor of
\* the timeout in the error message.  NoCode: the exit code (null) that
\* `close` reports for a child that did not exit by itself.  EXCERPT_CHARS:
\* the length to which runBenchmark cuts the stderr text that it logs.
GRACE_MS == 5000
MS_PER_SECOND == 1000
NoCode == -1
EXCERPT_CHARS == 500

\* Values of the BENCHMARK_TIMEOUT environment variable, in milliseconds.
TimeoutChoices == {5000, 10000}

\* queue, isProcessing: the fields of BenchmarkQueue.  runs: the closure
\* state of the runBenchmark call of each record.  immediates: the number
\* of setImmediate callbacks not yet run.  added: the records emitted on
\* `added`, in order.  events: the trace of the `started`, `completed` and
\* `failed` emissions, in order.  call: a call of one of the pure functions
\* of the program (its name, its argument and, once it returned, its result).
VARIABLES queue, runs, isProcessing, immediates, added, events, BENCHMARK_TIMEOUT,
          call, files

vars == <<queue, runs, isProcessing, immediates, added, events, BENCHMARK_TIMEOUT,
          call, files>>

\* ------------------------------------------------------------ data model
\* An error message: its kind, the number and the signal name that it
\* embeds, and how many characters of the child's output it embeds.
NoError == [kind |-> "none", num |-> 0, sig |-> "", text |-> 0]
TimeoutError(t) ==
    [kind |-> "timeout", num |-> t \div MS_PER_SECOND, sig |-> "", text |-> 0]
SpawnError == [kind |-> "spawn", num |-> 0, sig |-> "", text |-> 0]
SignalError(s) == [kind |-> "signal", num |-> 0, sig |-> s, text |-> 0]
\* `Benchmark failed with code ${code}: ${stderr}`
ExitCodeError(c, stderr) == [kind |-> "exit", num |-> c, sig |-> "", text |-> stderr]
\* "No valid benchmark result found in output"
NoResultError == [kind |-> "noresult", num |-> 0, sig |-> "", text |-> 0]
ListenerError == [kind |-> "listener", num |-> 0, sig |-> "", text |-> 0]

\* Variant: the record is pushed as already running.
QueuedBenchmark_Running(id) ==
    [id |-> id, status |-> "running", result |-> "none",
     error |-> NoError, startedAt |-> FALSE, completedAt |-> FALSE]

\* A record of the queue.  The fields of the request play no part in the
\* scheduling; id is the position at which the record was pushed.  The
\* timestamps are Date.now() values that no code of the queue reads: the
\* model keeps whether they are set.
QueuedBenchmark(id) ==
    [id |-> id, status |-> "pending", result |-> "none",
     error |-> NoError, startedAt |-> FALSE, completedAt |-> FALSE]

\* The closure state of one runBenchmark call: the promise flag, the child
\* process, the two timers (with the time left until they are due), the
\* time elapsed since SIGTERM was sent, and the signals delivered to the
\* child, each with the time elapsed since SIGTERM at its delivery.  Of the
\* `close` event the record keeps what its handler reads: the signal, and
\* the length of the captured stderr on the two paths that use stderr.
NoRun ==
    [phase |-> "none", isResolved |-> FALSE, proc |-> "none",
     timeoutId |-> "unset", timeoutLeft |-> 0,
     killTimer |-> "unset", killLeft |-> 0,
     sinceTerm |-> 0, signals |-> <<>>,
     closeSignal |-> "", stderr |-> 0]

\* No call of a pure function is under way.
NoCall == [fn |-> "none", returned |-> FALSE]

\* The results directory before anything was stored: no file.
NoFiles == <<>>

Ev(type, idx) == [type |-> type, idx |-> idx]

St == [queue |-> queue, runs |-> runs, isProcessing |-> isProcessing,
       immediates |-> immediates, added |-> added, events |-> events]

Apply(st) ==
    /\ queue' = st.queue
    /\ runs' = st.runs
    /\ isProcessing' = st.isProcessing
    /\ immediates' = st.immediates
    /\ added' = st.added
    /\ events' = st.events
    /\ UNCHANGED <<BENCHMARK_TIMEOUT, call, files>>

\* ---------------------------------------------------------- processQueue
PendingIdx(q) == {i \in 1..Len(q) : q[i].status = "pending"}

\* Variant: the newest pending record instead of the oldest.
FindPending_Last(q) ==
    IF PendingIdx(q) = {} THEN 0
    ELSE CHOOSE i \in PendingIdx(q) : \A k \in PendingIdx(q) : k <= i

\* queue.find((b) => b.status === "pending"); 0 stands for undefined
FindPending(q) ==
    IF PendingIdx(q) = {} THEN 0
    ELSE CHOOSE i \in PendingIdx(q) : \A k \in PendingIdx(q) : i <= k

StartRecord(st, p, thrStarted) ==
    [st EXCEPT !.isProcessing = TRUE,
               !.queue[p].status = "running",
               !.queue[p].startedAt = TRUE,
               !.events = Append(@, Ev("started", p)),
               !.runs[p].phase = IF thrStarted THEN "none" ELSE "called"]

\* Variant: no isProcessing guard.
ProcessQueue_NoGuard(st, thrStarted) ==
    IF FindPending(st.queue) = 0 THEN st
    ELSE StartRecord(st, FindPending(st.queue), thrStarted)

\* The synchronous part of processQueue, up to the call of runBenchmark.
\* A `started` subscriber that throws rejects the async function before
\* runBenchmark is called.
ProcessQueue(st, thrStarted) ==
    IF st.isProcessing THEN st
    ELSE IF FindPending(st.queue) = 0 THEN st
    ELSE StartRecord(st, FindPending(st.queue), thrStarted)

\* Variant: the finally block does not schedule processQueue.
Finally_NoDefer(st) ==
    [st EXCEPT !.isProcessing = FALSE]

\* finally { isProcessing = false; setImmediate(() => this.processQueue()) }
Finally(st) ==
    [st EXCEPT !.isProcessing = FALSE, !.immediates = @ + 1]

\* queue.find((b) => b.id === id); 0 stands for undefined
GetBenchmark(q, id) ==
    IF \A i \in 1..Len(q) : q[i].id # id THEN 0
    ELSE CHOOSE i \in 1..Len(q) :
            q[i].id = id /\ \A k \in 1..Len(q) : q[k].id = id => i <= k

\* [...this.queue]
GetAllBenchmarks(q) == [i \in 1..Len(q) |-> q[i]]

\* queue.filter((b) => b.status === status).length
CountStatus(q, status) == Cardinality({i \in 1..Len(q) : q[i].status = status})

\* getQueueStatus()
GetQueueStatus(q) ==
    [total |-> Len(q),
     pending |-> CountStatus(q, "pending"),
     running |-> CountStatus(q, "running"),
     completed |-> CountStatus(q, "completed"),
     failed |-> CountStatus(q, "failed")]

\* Variant: the catch block does not emit `failed`.
Catch_NoEmit(st, p, err) ==
    [st EXCEPT !.queue[p].status = "failed",
               !.queue[p].error = err,
               !.queue[p].completedAt = TRUE]

\* catch (error) { status = "failed"; error = message; emit("failed") }
Catch(st, p, err) ==
    [st EXCEPT !.queue[p].status = "failed",
               !.queue[p].error = err,
               !.queue[p].completedAt = TRUE,
               !.events = Append(@, Ev("failed", p))]

\* Continuation of processQueue after runBenchmark rejected with err.
OnRejected(st, p, err) == Finally(Catch(st, p, err))

\* Variant: the result is not stored in the record.
OnResolved_NoResult(st, p, result, thrCompleted) ==
    LET done == [st EXCEPT !.queue[p].status = "completed",
                           !.queue[p].completedAt = TRUE,
                           !.events = Append(@, Ev("completed", p))]
    IN  Finally(IF thrCompleted THEN Catch(done, p, ListenerError) ELSE done)

\* Continuation of processQueue after runBenchmark resolved with result.
\* emit("completed") is inside the try block: a subscriber that throws
\* lands in the catch block.
OnResolved(st, p, result, thrCompleted) ==
    LET done == [st EXCEPT !.queue[p].status = "completed",
                           !.queue[p].result = result,
                           !.queue[p].completedAt = TRUE,
                           !.events = Append(@, Ev("completed", p))]
    IN  Finally(IF thrCompleted THEN Catch(done, p, ListenerError) ELSE done)

\* ---------------------------------------------------------- runBenchmark
\* Variant: the signal is delivered whatever the state of the child.
Kill_Always(r, sig) ==
    [r EXCEPT !.signals = Append(@, [sig |-> sig, at |-> r.sinceTerm])]

\* proc.kill(sig): ChildProcess.kill delivers the signal only while the
\* child's handle exists, i.e. while the child has not exited.
Kill(r, sig) ==
    IF r.proc = "alive"
    THEN [r EXCEPT !.signals = Append(@, [sig |-> sig, at |-> r.sinceTerm])]
    ELSE r

\* Variant: SIGKILL is due at once.
ArmGrace_NoDelay(r) ==
    [r EXCEPT !.killTimer = "armed", !.killLeft = 0]

\* setTimeout(() => proc.kill('SIGKILL'), 5000)
ArmGrace(r) ==
    [r EXCEPT !.killTimer = "armed", !.killLeft = GRACE_MS]

\* Variant: the message carries the default timeout, not the configured one.
TimeoutMessage_Default(t) == TimeoutError(600000)

\* new Error(`Benchmark timed out after ${BENCHMARK_TIMEOUT / 1000}s`)
TimeoutMessage(t) == TimeoutError(t)

\* The callback of the timeout timer.  reject() resumes processQueue in
\* its catch block within the same macrotask.
TimeoutHandler(st, j) ==
    IF st.runs[j].isResolved
    THEN [st EXCEPT !.runs[j].timeoutId = "fired"]
    ELSE OnRejected(
           [st EXCEPT !.runs[j] =
               [ArmGrace(Kill(@, "SIGTERM")) EXCEPT
                   !.timeoutId = "fired",
                   !.isResolved = TRUE]],
           j, TimeoutMessage(BENCHMARK_TIMEOUT))

\* The callback of the grace timer.
GraceHandler(st, j) ==
    [st EXCEPT !.runs[j] = [Kill(@, "SIGKILL") EXCEPT !.killTimer = "fired"]]

\* clearTimeout(timeoutId)
ClearTimeout(r) ==
    IF r.timeoutId = "armed"
    THEN [r EXCEPT !.timeoutId = "cleared", !.timeoutLeft = 0]
    ELSE r

\* Variant: the timeout timer is left armed.
ErrorHandler_NoClear(st, j) ==
    IF st.runs[j].isResolved THEN st
    ELSE OnRejected([st EXCEPT !.runs[j].isResolved = TRUE], j, SpawnError)

\* proc.on("error", ...)
ErrorHandler(st, j) ==
    IF st.runs[j].isResolved THEN st
    ELSE OnRejected(
           [st EXCEPT !.runs[j] = [ClearTimeout(@) EXCEPT !.isResolved = TRUE]],
           j, SpawnError)

\* Variant: no isResolved guard.
CloseHandler_NoGuard(st, j, code, signal, stderr, extracted, thrCompleted) ==
    LET s1 == [st EXCEPT !.runs[j] =
                  [ClearTimeout(@) EXCEPT !.isResolved = TRUE,
                                          !.closeSignal = signal]]
        s2 == [s1 EXCEPT !.runs[j].stderr = stderr]
    IN  IF signal # "" THEN OnRejected(s1, j, SignalError(signal))
        ELSE IF code # 0 THEN OnRejected(s2, j, ExitCodeError(code, stderr))
        ELSE IF extracted THEN OnResolved(s1, j, "result", thrCompleted)
        ELSE OnRejected(s2, j, NoResultError)

\* Variant: a result on stdout is looked at before the signal.
CloseHandler_SignalLast(st, j, code, signal, stderr, extracted, thrCompleted) ==
    IF st.runs[j].isResolved THEN st
    ELSE LET s1 == [st EXCEPT !.runs[j] =
                        [ClearTimeout(@) EXCEPT !.isResolved = TRUE,
                                                !.closeSignal = signal]]
             s2 == [s1 EXCEPT !.runs[j].stderr = stderr]
         IN  IF extracted THEN OnResolved(s1, j, "result", thrCompleted)
             ELSE IF signal # "" THEN OnRejected(s1, j, SignalError(signal))
             ELSE IF code # 0 THEN OnRejected(s2, j, ExitCodeError(code, stderr))
             ELSE OnRejected(s2, j, NoResultError)

\* proc.on("close", (code, signal) => ...); stderr is the length of the
\* text captured from the child's stderr, extracted tells whether
\* extractJsonResult(stdout) returned an object.
CloseHandler(st, j, code, signal, stderr, extracted, thrCompleted) ==
    IF st.runs[j].isResolved THEN st
    ELSE LET s1 == [st EXCEPT !.runs[j] =
                        [ClearTimeout(@) EXCEPT !.isResolved = TRUE,
                                                !.closeSignal = signal]]
             s2 == [s1 EXCEPT !.runs[j].stderr = stderr]
         IN  IF signal # "" THEN OnRejected(s1, j, SignalError(signal))
             ELSE IF code # 0 THEN OnRejected(s2, j, ExitCodeError(code, stderr))
             ELSE IF extracted THEN OnResolved(s1, j, "result", thrCompleted)
             ELSE OnRejected(s2, j, NoResultError)

\* How much a child can have written to stderr: nothing, or more than the
\* excerpt that the log keeps.
StderrChars == {0, EXCERPT_CHARS + 1}

\* What a child can report on close: (code, signal).
CloseOutcomes ==
    {<<0, "">>, <<1, "">>, <<NoCode, "SIGTERM">>, <<NoCode, "SIGKILL">>}

Delivered(r) == {r.signals[i].sig : i \in 1..Len(r.signals)}

\* ----------------------------------------------------------------- Init
Init ==
    /\ queue = <<>>
    /\ runs = <<>>
    /\ isProcessing = FALSE
    /\ immediates = 0
    /\ added = <<>>
    /\ events = <<>>
    /\ BENCHMARK_TIMEOUT \in TimeoutChoices
    /\ call = NoCall
    /\ files = NoFiles

\* -------------------------------------------------------------- actions
\* addBenchmark(request): push, emit("added"), processQueue().  An `added`
\* subscriber that throws makes addBenchmark throw before processQueue.
AddBenchmark(thrAdded, thrStarted) ==
    /\ Len(queue) < MaxJobs
    /\ LET pushed == [St EXCEPT !.queue = Append(@, QueuedBenchmark(Len(queue) + 1)),
                                !.runs = Append(@, NoRun),
                                !.added = Append(@, Len(queue) + 1)]
       IN  Apply(IF thrAdded THEN pushed ELSE ProcessQueue(pushed, thrStarted))

\* The setImmediate callback scheduled by the finally block.
DeferredProcessQueue(thrStarted) ==
    /\ immediates > 0
    /\ Apply(ProcessQueue([St EXCEPT !.immediates = @ - 1], thrStarted))

\* runBenchmark after `await import("child_process")`: the promise executor
\* spawns the child and arms the timeout.  spawned = FALSE: the OS fails to
\* spawn and the child object will emit `error`.
Spawn(j, spawned) ==
    /\ j \in 1..Len(queue)
    /\ runs[j].phase = "called"
    /\ Apply([St EXCEPT !.runs[j] =
                [@ EXCEPT !.phase = "spawned",
                          !.proc = IF spawned THEN "alive" ELSE "nospawn",
                          !.timeoutId = "armed",
                          !.timeoutLeft = BENCHMARK_TIMEOUT]])

TimeoutFires(j) ==
    /\ j \in 1..Len(queue)
    /\ runs[j].timeoutId = "armed"
    /\ runs[j].timeoutLeft = 0
    /\ Apply(TimeoutHandler(St, j))

GraceFires(j) ==
    /\ j \in 1..Len(queue)
    /\ runs[j].killTimer = "armed"
    /\ runs[j].killLeft = 0
    /\ Apply(GraceHandler(St, j))

\* The child object emits `error` after a failed spawn.
ProcError(j) ==
    /\ j \in 1..Len(queue)
    /\ runs[j].proc = "nospawn"
    /\ Apply(ErrorHandler([St EXCEPT !.runs[j].proc = "errored"], j))

\* The child exits and its streams close: `close` is emitted.  The `data`
\* handlers only append to stdout and stderr; what they captured is drawn
\* here.
ProcClose(j, code, signal, stderr, extracted, thrCompleted) ==
    /\ j \in 1..Len(queue)
    /\ runs[j].proc \in {"alive", "errored"}
    /\ runs[j].proc = "errored" =>
          (code = NoCode /\ signal = "" /\ stderr = 0 /\ ~extracted)
    /\ runs[j].proc = "alive" => <<code, signal>> \in CloseOutcomes
    /\ signal = "SIGKILL" => "SIGKILL" \in Delivered(runs[j])
    /\ Apply(CloseHandler([St EXCEPT !.runs[j].proc = "exited"],
                          j, code, signal, stderr, extracted, thrCompleted))

Max0(x) == IF x < 0 THEN 0 ELSE x

TimerWaiting(r) ==
    \/ r.timeoutId = "armed" /\ r.timeoutLeft > 0
    \/ r.killTimer = "armed" /\ r.killLeft > 0

Elapse(r) ==
    [r EXCEPT !.timeoutLeft = IF r.timeoutId = "armed" THEN Max0(@ - TickMs) ELSE @,
              !.killLeft = IF r.killTimer = "armed" THEN Max0(@ - TickMs) ELSE @,
              !.sinceTerm = IF r.killTimer = "armed" /\ r.killLeft > 0
                            THEN @ + TickMs ELSE @]

\* Wall-clock time passes while some timer is not yet due.  The `error`
\* event of a failed spawn is emitted with process.nextTick, ahead of every
\* timer: no time passes while it is outstanding.
Tick ==
    /\ \E j \in 1..Len(runs) : TimerWaiting(runs[j])
    /\ \A j \in 1..Len(runs) : runs[j].proc # "nospawn"
    /\ runs' = [j \in 1..Len(runs) |-> Elapse(runs[j])]
    /\ UNCHANGED <<queue, isProcessing, immediates, added, events, BENCHMARK_TIMEOUT,
                   call, files>>

JobIdx == 1..MaxJobs

Next ==
    \/ \E thrAdded \in BOOLEAN, thrStarted \in BOOLEAN :
          AddBenchmark(thrAdded, thrStarted)
    \/ \E thrStarted \in BOOLEAN : DeferredProcessQueue(thrStarted)
    \/ \E j \in JobIdx, spawned \in BOOLEAN : Spawn(j, spawned)
    \/ \E j \in JobIdx : TimeoutFires(j)
    \/ \E j \in JobIdx : GraceFires(j)
    \/ \E j \in JobIdx : ProcError(j)
    \/ \E j \in JobIdx, code \in {0, 1, NoCode}, signal \in {"", "SIGTERM", "SIGKILL"},
          stderr \in StderrChars, extracted \in BOOLEAN, thrCompleted \in BOOLEAN :
          ProcClose(j, code, signal, stderr, extracted, thrCompleted)
    \/ Tick

Spec == Init /\ [][Next]_vars

\* The event loop runs every setImmediate callback and every due timer.
FairSpec ==
    /\ Spec
    /\ WF_vars(\E thrStarted \in BOOLEAN : DeferredProcessQueue(thrStarted))
    /\ WF_vars(\E j \in JobIdx : TimeoutFires(j))

\* ------------------------------------------------------------ properties
Recs == 1..Len(queue)
Running == {i \in Recs : queue[i].status = "running"}
Terminal == {"completed", "failed"}
IsStarted(e) == e.type = "started"
IsTerminal(e) == e.type \in Terminal
StartedEvents == SelectSeq(events, IsStarted)
EventPos(type, j) == {p \in 1..Len(events) : events[p] = Ev(type, j)}
Alive == {j \in Recs : runs[j].proc = "alive"}
LastEvent == events[Len(events)]

\* C1: in every reachable state at most one record has status "running".
C1_AtMostOneRunning == Cardinality(Running) <= 1

\* A record is running while a deferred processQueue callback is outstanding.
C1_Witness == Cardinality(Running) = 1 /\ immediates > 0

\* C2: `started` events are emitted in enqueue order, and no record has left
\* "pending" while an earlier-enqueued record is still pending.
C2_FifoStart ==
    /\ \A p \in 1..Len(StartedEvents) : StartedEvents[p].idx = p
    /\ \A i \in Recs, k \in Recs :
          (i < k /\ queue[k].status # "pending") => queue[i].status # "pending"

\* The second record runs after the first one completed.
C2_Witness ==
    /\ Len(queue) >= 2
    /\ queue[1].status = "completed"
    /\ queue[2].status = "running"

\* C3: a record whose `completed` event was emitted stays completed with its
\* result and without error, and a record whose `failed` event was emitted
\* stays failed: a terminal status is final.
C3_TerminalIsFinal ==
    \A j \in Recs :
        /\ EventPos("completed", j) # {} =>
              /\ queue[j].status = "completed"
              /\ queue[j].result # "none"
              /\ queue[j].error = NoError
        /\ EventPos("failed", j) # {} => queue[j].status = "failed"

\* C4: the finally block of a failing job leaves the queue idle with a
\* deferred processQueue outstanding, and from an idle queue with a deferred
\* callback outstanding the oldest pending record is eventually started.
C4_FailureAdvances ==
    /\ [][\A j \in Recs :
            (EventPos("failed", j) = {} /\ Ev("failed", j) \in {events'[p] : p \in 1..Len(events')})
                => (~isProcessing' /\ immediates' = immediates + 1)]_vars
    /\ \A k \in JobIdx :
          (~isProcessing /\ immediates > 0 /\ FindPending(queue) = k)
              ~> (k \in Recs /\ queue[k].status # "pending")

\* A record that was pending starts right after the failure of its predecessor.
C4_Witness ==
    /\ Len(events) >= 3
    /\ events[2] = Ev("failed", 1)
    /\ events[3] = Ev("started", 2)
    /\ immediates = 0

\* C5: at most one child process spawned by the queue is alive.
C5_OneChildAlive == Cardinality(Alive) <= 1

\* C6: between two consecutive `started` events there is a `completed` or
\* `failed` event of the record of the first one.
C6_TerminalBetweenStarts ==
    \A p \in 1..Len(events), q \in 1..Len(events) :
        (p < q /\ IsStarted(events[p]) /\ IsStarted(events[q])) =>
            \E r \in (p + 1)..(q - 1) :
                IsTerminal(events[r]) /\ events[r].idx = events[p].idx

\* Two records have started, the first one having failed in between.
C6_Witness ==
    /\ Len(events) >= 3
    /\ IsStarted(events[1])
    /\ events[2].type = "failed"
    /\ IsStarted(events[3])
    /\ events[3].idx # events[1].idx

\* C7: no record has more than one terminal event, and a record in a
\* terminal status has exactly one, of the kind of its status.
C7_OneTerminalEvent ==
    \A j \in Recs :
        /\ Cardinality(EventPos("completed", j) \cup EventPos("failed", j)) <= 1
        /\ queue[j].status \in Terminal => Cardinality(EventPos(queue[j].status, j)) = 1

\* C8: a run whose timeout timer fired is failed with an error that carries
\* the configured timeout; a due timeout timer does not stay armed; the
\* timeout leaves the queue idle with a deferred callback outstanding, from
\* which the oldest pending record is eventually started.
C8_TimeoutFailsAndAdvances ==
    /\ [](\A j \in Recs : runs[j].timeoutId = "fired" =>
            /\ queue[j].status = "failed"
            /\ queue[j].error.kind = "timeout"
            /\ queue[j].error.num * MS_PER_SECOND = BENCHMARK_TIMEOUT)
    /\ [][\A j \in Recs : (runs[j].timeoutId = "armed" /\ runs'[j].timeoutId = "fired")
            => (~isProcessing' /\ immediates' = immediates + 1)]_vars
    /\ \A j \in JobIdx :
          (j \in Recs /\ runs[j].timeoutId = "armed" /\ runs[j].timeoutLeft = 0)
              ~> (j \in Recs /\ runs[j].timeoutId # "armed")
    /\ \A k \in JobIdx :
          (/\ events # <<>> /\ LastEvent.type = "failed"
           /\ queue[LastEvent.idx].error.kind = "timeout"
           /\ immediates > 0
           /\ FindPending(queue) = k)
              ~> (k \in Recs /\ queue[k].status # "pending")

\* A record runs after its predecessor timed out.
C8_Witness ==
    \E j \in Recs, k \in Recs :
        /\ runs[j].timeoutId = "fired"
        /\ queue[j].error.kind = "timeout"
        /\ EventPos("started", k) # {}
        /\ \A p \in EventPos("started", k), f \in EventPos("failed", j) : f < p

\* C9: signals go only to a live child of a run that timed out; the first
\* is SIGTERM, a second one is SIGKILL and is delivered no earlier than
\* GRACE_MS after SIGTERM.
C9_SignalOrder ==
    /\ [](\A j \in Recs : runs[j].signals # <<>> =>
            /\ runs[j].timeoutId = "fired"
            /\ queue[j].error.kind = "timeout"
            /\ runs[j].signals[1] = [sig |-> "SIGTERM", at |-> 0]
            /\ Len(runs[j].signals) <= 2
            /\ Len(runs[j].signals) = 2 =>
                  /\ runs[j].signals[2].sig = "SIGKILL"
                  /\ runs[j].signals[2].at >= GRACE_MS)
    /\ [][\A j \in Recs : runs'[j].signals # runs[j].signals => runs[j].proc = "alive"]_vars

\* A child that outlived the grace window got SIGTERM, then SIGKILL.
C9_Witness ==
    \E j \in Recs :
        /\ Len(runs[j].signals) = 2
        /\ runs[j].signals[2].sig = "SIGKILL"

\* C10: a step that changes the length of the queue appends exactly one
\* record and emits `added` for it; no record becomes terminal in that step;
\* the new record is pending unless the queue was idle and it is the oldest
\* pending one; when a record is running, nothing else changes.
C10_AddBenchmarkFrame ==
    [][Len(queue') # Len(queue) =>
        /\ Len(queue') = Len(queue) + 1
        /\ added' = Append(added, Len(queue'))
        /\ immediates' = immediates
        /\ \A i \in Recs :
              /\ queue'[i].status \in Terminal => queue'[i] = queue[i]
              /\ queue'[i].status = "pending" => queue'[i] = queue[i]
        /\ LET new == queue'[Len(queue')]
           IN  /\ new.id = Len(queue')
               /\ new.result = "none" /\ new.error = NoError /\ ~new.completedAt
               /\ \/ new.status = "pending" /\ ~new.startedAt
                  \/ /\ ~isProcessing /\ PendingIdx(queue) = {}
                     /\ new.status = "running" /\ new.startedAt
        /\ Running # {} =>
              /\ SubSeq(queue', 1, Len(queue)) = queue
              /\ queue'[Len(queue')].status = "pending"
              /\ runs' = Append(runs, NoRun)
              /\ events' = events
              /\ isProcessing' = isProcessing
    ]_vars

\* A record was appended as pending behind a running one.
C10_Witness ==
    /\ Len(queue) >= 2
    /\ added = <<1, 2>>
    /\ queue[1].status = "running"
    /\ queue[2].status = "pending"

\* ====================================================== extractJsonResult
\* The child's stdout is a sequence of tokens.  "{", "}", " " and "\n" are
\* the characters themselves.  "P" is a member `"platform": v` with a truthy
\* value v, "F" the same member with a falsy value ("", 0, false or null),
\* "x" any other scalar member, "k" the key and colon in front of a nested
\* object, and "g" text that is not JSON (a log message).  The separating
\* commas are left out.  A parsed object is its tokens without white space;
\* <<>> stands for null and for a parse that throws.
MaxChunks == 3

Null == <<>>
IsBrace(c) == c \in {"{", "}"}
IsSpace(c) == c \in {" ", "\n"}
NotSpace(c) == ~IsSpace(c)
IsMarker(c) == c \in {"P", "F"}

\* text.includes('"platform"')
IncludesMarker(t) == \E i \in 1..Len(t) : IsMarker(t[i])

\* stdout.split('\n'): the number of lines, and the k-th line
NumLines(s) == Cardinality({i \in 1..Len(s) : s[i] = "\n"}) + 1

Line(s, k) ==
    LET idx == {i \in 1..Len(s) :
                   /\ s[i] # "\n"
                   /\ Cardinality({j \in 1..i : s[j] = "\n"}) = k - 1}
    IN  IF idx = {} THEN <<>>
        ELSE SubSeq(s, CHOOSE i \in idx : \A j \in idx : i <= j,
                       CHOOSE i \in idx : \A j \in idx : j <= i)

\* String.prototype.trim
Trim(t) ==
    LET idx == {i \in 1..Len(t) : NotSpace(t[i])}
    IN  IF idx = {} THEN <<>>
        ELSE SubSeq(t, CHOOSE i \in idx : \A j \in idx : i <= j,
                       CHOOSE i \in idx : \A j \in idx : j <= i)

\* The nesting depth after the first i tokens.
Depth(t, i) ==
    Cardinality({j \in 1..i : t[j] = "{"}) - Cardinality({j \in 1..i : t[j] = "}"})

\* The grammar of a JSON object over the tokens.
IsJsonObject(t) ==
    /\ Len(t) >= 2
    /\ t[1] = "{"
    /\ \A i \in 1..Len(t) : t[i] \in {"{", "}", "P", "F", "x", "k"}
    /\ \A i \in 1..(Len(t) - 1) : Depth(t, i) >= 1
    /\ Depth(t, Len(t)) = 0
    /\ \A i \in 2..Len(t) : t[i] = "{" => t[i - 1] = "k"
    /\ \A i \in 1..Len(t) : t[i] = "k" => (i < Len(t) /\ t[i + 1] = "{")

\* JSON.parse(text) of a text that starts with "{"
JsonParse(t) ==
    LET u == SelectSeq(t, NotSpace)
    IN  IF IsJsonObject(u) THEN u ELSE Null

\* The own members of a parsed object named "platform": a later duplicate
\* key overrides an earlier one.
PlatformKeys(o) == {i \in 1..Len(o) : IsMarker(o[i]) /\ Depth(o, i) = 1}

HasPlatformKey(o) == PlatformKeys(o) # {}

\* if (parsed.platform)
PlatformTruthy(o) ==
    /\ HasPlatformKey(o)
    /\ o[CHOOSE i \in PlatformKeys(o) : \A j \in PlatformKeys(o) : j <= i] = "P"

\* The body of both loops for one candidate text: the parsed object when the
\* candidate is accepted, Null when the loop goes on.
Accept(t) ==
    IF ~IncludesMarker(t) THEN Null
    ELSE LET parsed == JsonParse(t)
         IN  IF parsed # Null /\ PlatformTruthy(parsed) THEN parsed ELSE Null

\* line.startsWith('{') && line.includes('"platform"'), then the parse
AcceptLine(l) ==
    LET line == Trim(l)
    IN  IF Len(line) > 0 /\ line[1] = "{" THEN Accept(line) ELSE Null

QualifyingLines(s) == {k \in 1..NumLines(s) : AcceptLine(Line(s, k)) # Null}

\* for (let i = lines.length - 1; i >= 0; i--) ...
LineScan(s) ==
    IF QualifyingLines(s) = {} THEN Null
    ELSE AcceptLine(Line(s, CHOOSE k \in QualifyingLines(s) :
                                 \A m \in QualifyingLines(s) : m <= k))

\* ---- the fallback: stdout.match(/\{[^{}]*(?:\{[^{}]*\}[^{}]*)*\}/g)
\* [^{}]* from position p: the first position at or after p that holds a
\* brace, Len(s) + 1 when there is none.
RECURSIVE SkipNonBrace(_, _)
SkipNonBrace(s, p) ==
    IF p > Len(s) \/ IsBrace(s[p]) THEN p ELSE SkipNonBrace(s, p + 1)

\* (?:\{[^{}]*\}[^{}]*)*\} from position q, which holds a brace or is past
\* the end: the position of the closing brace of the match, 0 for no match.
\* A group that meets a second opening brace before its closing brace does
\* not match, and no shorter repetition reaches a closing brace either.
RECURSIVE MatchGroups(_, _)
MatchGroups(s, q) ==
    IF q > Len(s) THEN 0
    ELSE IF s[q] = "}" THEN q
    ELSE LET r == SkipNonBrace(s, q + 1)
         IN  IF r <= Len(s) /\ s[r] = "}"
             THEN MatchGroups(s, SkipNonBrace(s, r + 1))
             ELSE 0

\* The end of the match of the whole pattern that starts at p, 0 for none.
MatchEnd(s, p) ==
    IF s[p] # "{" THEN 0 ELSE MatchGroups(s, SkipNonBrace(s, p + 1))

\* The matches of the global search from position p on, as <<first, last>>
\* pairs: the leftmost match, then the search goes on behind it.
RECURSIVE Matches(_, _)
Matches(s, p) ==
    IF p > Len(s) THEN <<>>
    ELSE LET e == MatchEnd(s, p)
         IN  IF e = 0 THEN Matches(s, p + 1)
             ELSE <<<<p, e>>>> \o Matches(s, e + 1)

JsonMatches(s) == Matches(s, 1)

MatchText(s, m) == SubSeq(s, m[1], m[2])

AcceptedMatches(s) ==
    {k \in 1..Len(JsonMatches(s)) : Accept(MatchText(s, JsonMatches(s)[k])) # Null}

\* The match that the backward loop over the matches returns; 0 for none.
FallbackMatch(s) ==
    IF AcceptedMatches(s) = {} THEN 0
    ELSE CHOOSE k \in AcceptedMatches(s) : \A m \in AcceptedMatches(s) : m <= k

FallbackScan(s) ==
    IF FallbackMatch(s) = 0 THEN Null
    ELSE Accept(MatchText(s, JsonMatches(s)[FallbackMatch(s)]))

\* extractJsonResult(stdout)
ExtractJsonResult(s) ==
    IF LineScan(s) # Null THEN LineScan(s) ELSE FallbackScan(s)

\* ---- the outputs the scans are applied to
LogLine == <<"g">>
ResultLine == <<"{", "P", "x", "}">>
PaddedResultLine == <<" ", "{", "x", "P", "}", " ">>
PlainJsonLine == <<"{", "x", "}">>
BrokenMarkedLine == <<"{", "P", "g">>
FalsyResultLine == <<"{", "F", "}">>
LoggedResult == <<"g", " ", "{", "P", "}">>
\* JSON.stringify(result, null, 2) puts every member on a line of its own.
PrettyFlat == <<"{", "\n", " ", "P", "\n", " ", "x", "\n", "}">>
PrettyNested ==
    <<"{", "\n", " ", "P", "\n", " ", "k", "{", "\n", " ", "P", "\n", " ", "}", "\n", "}">>
\* The shape the Node runner prints: `environment` has a `platform` member
\* and objects of its own (cpu, memory).
PrettyDeep ==
    <<"{", "\n", " ", "P", "\n", " ", "k", "{", "\n",
      " ", "k", "{", "\n", " ", "x", "\n", " ", "}", "\n",
      " ", "P", "\n", " ", "}", "\n", "}">>

Chunks ==
    {LogLine, ResultLine, PaddedResultLine, PlainJsonLine, BrokenMarkedLine,
     FalsyResultLine, LoggedResult, PrettyFlat, PrettyNested, PrettyDeep}

\* The chunks, each written with a line feed behind it.
RECURSIVE Written(_)
Written(cs) ==
    IF cs = <<>> THEN <<>> ELSE Head(cs) \o <<"\n">> \o Written(Tail(cs))

Stdouts ==
    {Written(cs) : cs \in UNION {[1..n -> Chunks] : n \in 0..MaxChunks}}

\* The state of the queue in the specifications of the pure functions.
QueueIdle ==
    /\ queue = <<>>
    /\ runs = <<>>
    /\ isProcessing = FALSE
    /\ immediates = 0
    /\ added = <<>>
    /\ events = <<>>
    /\ BENCHMARK_TIMEOUT = 600000

QueueVars == <<queue, runs, isProcessing, immediates, added, events, BENCHMARK_TIMEOUT>>

\* A call that has not returned yet, and the same call with its result.
Pending(fn, arg) == [fn |-> fn, arg |-> arg, returned |-> FALSE, out |-> Null]

Return(c, out) == [c EXCEPT !.returned = TRUE, !.out = out]

Returned(fn) == call.fn = fn /\ call.returned

ExtractInit ==
    /\ QueueIdle
    /\ files = NoFiles
    /\ call \in {Pending("extractJsonResult", stdout) : stdout \in Stdouts}

CallExtractJsonResult ==
    /\ call.fn = "extractJsonResult"
    /\ ~call.returned
    /\ call' = Return(call, ExtractJsonResult(call.arg))
    /\ UNCHANGED <<QueueVars, files>>

ExtractNext == CallExtractJsonResult

ExtractSpec == ExtractInit /\ [][ExtractNext]_vars

\* C11: when some lines of stdout trim to text that starts with "{", holds
\* the marker and parses as an object with a `platform` key, the call
\* returns the parse of the last of these lines.
C11_LastMarkedLine ==
    Returned("extractJsonResult") =>
        LET s == call.arg
            marked == {k \in 1..NumLines(s) :
                          LET line == Trim(Line(s, k))
                          IN  /\ Len(line) > 0
                              /\ line[1] = "{"
                              /\ IncludesMarker(line)
                              /\ JsonParse(line) # Null
                              /\ HasPlatformKey(JsonParse(line))}
        IN  marked # {} =>
                call.out = JsonParse(Trim(Line(s, CHOOSE k \in marked :
                                                     \A m \in marked : m <= k)))

\* C12: when no line qualifies, the object that the fallback scan returns
\* is not a sub-object of a larger object of stdout.
C12_FallbackTopLevel ==
    (Returned("extractJsonResult") /\ LineScan(call.arg) = Null
        /\ FallbackMatch(call.arg) # 0) =>
        LET s == call.arg
            m == JsonMatches(s)[FallbackMatch(s)]
        IN  ~ \E a \in 1..(m[1] - 1), b \in (m[2] + 1)..Len(s) :
                LET t == SubSeq(s, a, b)
                IN  /\ t[1] = "{"
                    /\ \A i \in 1..(Len(t) - 1) : Depth(t, i) >= 1
                    /\ Depth(t, Len(t)) = 0

\* C13: a stdout with a candidate (a trimmed line that starts with "{", or
\* a match of the fallback pattern) that holds the marker and parses as an
\* object with a `platform` key yields a result, whatever the key's value.
C13_PresenceSuffices ==
    Returned("extractJsonResult") =>
        LET s == call.arg
            candidates ==
                {Trim(Line(s, k)) : k \in 1..NumLines(s)}
                    \cup {MatchText(s, JsonMatches(s)[k]) : k \in 1..Len(JsonMatches(s))}
        IN  (\E c \in candidates :
                /\ Len(c) > 0
                /\ c[1] = "{"
                /\ IncludesMarker(c)
                /\ JsonParse(c) # Null
                /\ HasPlatformKey(JsonParse(c)))
            => call.out # Null

\* ============================================================ benchmark-id
\* Strings are strings; a character is a string of length one.  An optional
\* field that is absent holds the falsy value of its type ("", 0, FALSE):
\* the code reads every optional field through its truthiness, except for
\* the comparison of device with "webgpu", which no falsy value satisfies.
MaxBatchSize == 2

Char(s, i) == SubSeq(s, i, i)
CharsOf(s) == {Char(s, i) : i \in 1..Len(s)}

UpperCase == "ABCDEFGHIJKLMNOPQRSTUVWXYZ"
LowerCase == "abcdefghijklmnopqrstuvwxyz"
Digits == "0123456789"
WhiteSpace == " \t"

\* String.prototype.toLowerCase, one character
ToLowerCase(c) ==
    IF c \in CharsOf(UpperCase)
    THEN Char(LowerCase, CHOOSE i \in 1..Len(UpperCase) : Char(UpperCase, i) = c)
    ELSE c

\* .toLowerCase().replace(/\s+/g, "-"): a run of white space becomes one "-"
RECURSIVE LowerAndDash(_, _)
LowerAndDash(s, inSpace) ==
    IF s = "" THEN ""
    ELSE IF Head(s) \in CharsOf(WhiteSpace)
         THEN (IF inSpace THEN "" ELSE "-") \o LowerAndDash(Tail(s), TRUE)
         ELSE ToLowerCase(Head(s)) \o LowerAndDash(Tail(s), FALSE)

\* [a-z0-9\-]
IsEnvChar(c) == c \in CharsOf(LowerCase) \cup CharsOf(Digits) \cup {"-"}

\* .replace(/[^a-z0-9\-]/g, "")
RECURSIVE KeepEnvChars(_)
KeepEnvChars(s) ==
    IF s = "" THEN ""
    ELSE (IF IsEnvChar(Head(s)) THEN Head(s) ELSE "") \o KeepEnvChars(Tail(s))

\* Variant: no truncation.
SanitizeEnvString_NoLimit(str) == KeepEnvChars(LowerAndDash(str, FALSE))

\* sanitizeEnvString(str)
SanitizeEnvString(str) ==
    LET kept == KeepEnvChars(LowerAndDash(str, FALSE))
    IN  SubSeq(kept, 1, IF Len(kept) < 20 THEN Len(kept) ELSE 20)

\* str.split(/[\s(]/)[0]
RECURSIVE FirstWord(_)
FirstWord(s) ==
    IF s = "" \/ Head(s) \in CharsOf(WhiteSpace) \cup {"("} THEN ""
    ELSE Head(s) \o FirstWord(Tail(s))

\* str.match(/^(\d+)/): the leading digits, "" when there is no match
RECURSIVE LeadingDigits(_)
LeadingDigits(s) ==
    IF s = "" \/ Head(s) \notin CharsOf(Digits) THEN ""
    ELSE Head(s) \o LeadingDigits(Tail(s))

Opt(cond, part) == IF cond THEN <<part>> ELSE <<>>

\* Variant: "cpu" is the default device of both platforms.
DevicePart_AlwaysCpu(settings) ==
    IF settings.device # "" THEN settings.device ELSE "cpu"

\* 3. Device
DevicePart(settings) ==
    IF settings.device # "" THEN settings.device
    ELSE IF settings.platform = "node" THEN "cpu"
    ELSE "webgpu"

\* 5. Batch size: `b${settings.batchSize || 1}`
BatchPart(settings) ==
    "b" \o ToString(IF settings.batchSize # 0 THEN settings.batchSize ELSE 1)

\* 8. Environment info
EnvironmentParts(settings) ==
    LET env == settings.environment
        cpuName == SanitizeEnvString(FirstWord(env.cpuModel))
        cores == IF env.cpuCores # 0 THEN env.cpuCores ELSE env.cpuCoresWeb
        gpuVendor == SanitizeEnvString(FirstWord(env.gpuVendor))
    IN  IF ~env.defined THEN <<>>
        ELSE Opt(env.cpuModel # "" /\ cpuName # "", cpuName)
             \o Opt(cores # 0, ToString(cores) \o "c")
             \o (IF env.memTotal # ""
                 THEN Opt(LeadingDigits(env.memTotal) # "",
                          LeadingDigits(env.memTotal) \o "gb")
                 ELSE Opt(env.deviceMemory # 0, ToString(env.deviceMemory) \o "gb"))
             \o Opt(env.arch # "", env.arch)
             \o Opt(/\ settings.platform = "web"
                    /\ settings.device = "webgpu"
                    /\ env.gpuVendor # ""
                    /\ gpuVendor # ""
                    /\ gpuVendor # "google",
                    "gpu-" \o gpuVendor)

\* generateFilenameParts(settings)
GenerateFilenameParts(settings) ==
    <<settings.platform, settings.mode, DevicePart(settings)>>
    \o Opt(settings.dtype # "", settings.dtype)
    \o <<BatchPart(settings)>>
    \o Opt(settings.platform = "web" /\ settings.browser # "", settings.browser)
    \o Opt(settings.platform = "web" /\ settings.headed, "headed")
    \o EnvironmentParts(settings)

\* The sequences over S of length at most n.
SeqsOver(S, n) == UNION {[1..k -> S] : k \in 0..n}

\* Array.prototype.join
RECURSIVE Join(_, _)
Join(parts, sep) ==
    IF parts = <<>> THEN ""
    ELSE IF Len(parts) = 1 THEN parts[1]
    ELSE parts[1] \o sep \o Join(Tail(parts), sep)

\* generateBenchmarkPath(settings)
GenerateBenchmarkPath(settings) ==
    LET dir == settings.task \o "/" \o settings.modelId
        filename == Join(GenerateFilenameParts(settings), "_") \o ".jsonl"
    IN  [dir |-> dir, filename |-> filename, fullPath |-> dir \o "/" \o filename]

\* ---- the settings the functions are applied to
Platforms == {"node", "web"}
Modes == {"warm", "cold"}
Devices == {"", "cpu", "webgpu", "cpu_q8"}
Dtypes == {"", "q8"}
BatchSizes == 0..MaxBatchSize
Browsers == {"", "chromium"}
Tasks == {"fill-mask", "fill-mask/org"}
ModelIds == {"bert", "org/bert"}

NoEnvironment ==
    [defined |-> FALSE, cpuModel |-> "", cpuCores |-> 0, cpuCoresWeb |-> 0,
     memTotal |-> "", deviceMemory |-> 0, arch |-> "", gpuVendor |-> ""]

\* What getSystemInfo() reports under Node.
NodeEnvironment ==
    [defined |-> TRUE, cpuModel |-> "Intel(R) Core(TM) i7", cpuCores |-> 8,
     cpuCoresWeb |-> 0, memTotal |-> "16.00 GB", deviceMemory |-> 0,
     arch |-> "x64", gpuVendor |-> ""]

\* What the browser page reports.
WebEnvironment ==
    [defined |-> TRUE, cpuModel |-> "", cpuCores |-> 0, cpuCoresWeb |-> 4,
     memTotal |-> "", deviceMemory |-> 8, arch |-> "", gpuVendor |-> "Apple Inc."]

\* Facts that sanitize to nothing, and a GPU vendor that is skipped.
BareEnvironment ==
    [defined |-> TRUE, cpuModel |-> "(virtual)", cpuCores |-> 0, cpuCoresWeb |-> 0,
     memTotal |-> "unknown", deviceMemory |-> 0, arch |-> "",
     gpuVendor |-> "Google Inc."]

Environments == {NoEnvironment, NodeEnvironment, WebEnvironment, BareEnvironment}

BenchmarkSettings(tasks, modelIds, environments) ==
    [platform : Platforms, modelId : modelIds, task : tasks, mode : Modes,
     device : Devices, dtype : Dtypes, batchSize : BatchSizes,
     browser : Browsers, headed : BOOLEAN, environment : environments]

\* The settings that differ from s in at most one of: platform, mode,
\* device and dtype, batchSize, browser and headed, task and modelId.
Neighbours(s) ==
    {[s EXCEPT !.platform = p] : p \in Platforms}
    \cup {[s EXCEPT !.mode = m] : m \in Modes}
    \cup {[s EXCEPT !.device = d, !.dtype = t] : d \in Devices, t \in Dtypes}
    \cup {[s EXCEPT !.batchSize = b] : b \in BatchSizes}
    \cup {[s EXCEPT !.browser = b, !.headed = h] : b \in Browsers, h \in BOOLEAN}
    \cup {[s EXCEPT !.task = t, !.modelId = m] : t \in Tasks, m \in ModelIds}

\* ---------------------------------------------------------- parseBenchmarkId
MaxTokens == 4

\* String.prototype.split with a one-character separator
RECURSIVE UpToSep(_, _)
UpToSep(s, sep) ==
    IF s = "" \/ Head(s) = sep THEN "" ELSE Head(s) \o UpToSep(Tail(s), sep)

RECURSIVE Split(_, _)
Split(s, sep) ==
    LET first == UpToSep(s, sep)
    IN  IF Len(first) = Len(s) THEN <<first>>
        ELSE <<first>> \o Split(SubSeq(s, Len(first) + 2, Len(s)), sep)

\* id.lastIndexOf("/"), one-based; 0 when there is none
LastIndexOf(s, c) ==
    LET idx == {i \in 1..Len(s) : Char(s, i) = c}
    IN  IF idx = {} THEN 0 ELSE CHOOSE i \in idx : \A k \in idx : k <= i

\* The value of a string of decimal digits.
RECURSIVE DigitsValue(_, _)
DigitsValue(s, acc) ==
    IF s = "" THEN acc
    ELSE DigitsValue(Tail(s),
            10 * acc + (CHOOSE d \in 0..9 : Char(Digits, d + 1) = Head(s)))

RECURSIVE SkipWhiteSpace(_)
SkipWhiteSpace(s) ==
    IF s # "" /\ Head(s) \in CharsOf(WhiteSpace) THEN SkipWhiteSpace(Tail(s)) ELSE s

\* parseInt(s, 10): white space, a sign, then the leading digits
ParseInt(s) ==
    LET t == SkipWhiteSpace(s)
        signed == t # "" /\ Head(t) \in {"-", "+"}
        digits == LeadingDigits(IF signed THEN Tail(t) ELSE t)
    IN  IF digits = "" THEN [isNaN |-> TRUE, value |-> 0]
        ELSE [isNaN |-> FALSE,
              value |-> IF signed /\ Head(t) = "-" THEN -DigitsValue(digits, 0)
                        ELSE DigitsValue(digits, 0)]

KnownPlatforms == {"node", "web"}
KnownModes == {"warm", "cold"}
KnownDevices == {"cpu", "webgpu", "wasm"}
KnownDtypes == {"fp32", "fp16", "q8", "q4", "int8", "uint8", "bnb4", "q4f16"}
KnownBrowsers == {"chromium", "firefox", "webkit"}

FieldOrder == <<"platform", "mode", "device", "dtype", "batchSize", "browser", "headed">>

\* The test that guards the assignment of one field, applied to a token.
Recognizes(field, token) ==
    CASE field = "platform" -> token \in KnownPlatforms
      [] field = "mode" -> token \in KnownModes
      [] field = "device" -> token \in KnownDevices
      [] field = "dtype" -> token \in KnownDtypes
      [] field = "batchSize" ->
            token # "" /\ Head(token) = "b" /\ ~ParseInt(Tail(token)).isNaN
      [] field = "browser" -> token \in KnownBrowsers
      [] field = "headed" -> token = "headed"

\* Variant: idx moves on whether or not the token was recognized.
ParseField_AlwaysAdvance(parts, idx, field) ==
    IF idx <= Len(parts) /\ Recognizes(field, parts[idx])
    THEN [assigned |-> <<[field |-> field, token |-> idx]>>, idx |-> idx + 1]
    ELSE [assigned |-> <<>>, idx |-> idx + 1]

\* if (idx < parts.length && <test of parts[idx]>) { settings.f = ...; idx++ }
\* with a one-based idx
ParseField(parts, idx, field) ==
    IF idx <= Len(parts) /\ Recognizes(field, parts[idx])
    THEN [assigned |-> <<[field |-> field, token |-> idx]>>, idx |-> idx + 1]
    ELSE [assigned |-> <<>>, idx |-> idx]

\* The assignments of the fields from FieldOrder[k] on, in program order.
RECURSIVE ParseFields(_, _, _)
ParseFields(parts, idx, k) ==
    IF k > Len(FieldOrder) THEN <<>>
    ELSE LET step == ParseField(parts, idx, FieldOrder[k])
         IN  step.assigned \o ParseFields(parts, step.idx, k + 1)

\* The value that an assignment stores.
FieldValue(parts, a) ==
    CASE a.field = "batchSize" -> ParseInt(Tail(parts[a.token])).value
      [] a.field = "headed" -> TRUE
      [] OTHER -> parts[a.token]

\* parseBenchmarkId(id): the task and the modelId if assigned (has), the
\* tokens of the filename, and the assignments made from them in order.
ParseBenchmarkId(id) ==
    LET pathParts == Split(id, "/")
        lastSlashIdx == LastIndexOf(id, "/")
        task == pathParts[1]
        modelId == SubSeq(id, Len(task) + 2, lastSlashIdx - 1)
        parts == Split(SubSeq(id, lastSlashIdx + 1, Len(id)), "_")
    IN  IF Len(pathParts) < 4
        THEN [has |-> FALSE, task |-> "", modelId |-> "", parts |-> <<>>,
              assigned |-> <<>>]
        ELSE [has |-> TRUE, task |-> task, modelId |-> modelId, parts |-> parts,
              assigned |-> IF Len(parts) < 3 THEN <<>> ELSE ParseFields(parts, 1, 1)]

\* ------------------------------------------------- the local path
\* The settings BenchmarkStorage.getBenchmarkFilePath builds from a
\* benchmark: the request fields, and no environment.
StorageSettings(benchmark) ==
    [platform |-> benchmark.platform, modelId |-> benchmark.modelId,
     task |-> benchmark.task, mode |-> benchmark.mode,
     device |-> benchmark.device, dtype |-> benchmark.dtype,
     batchSize |-> benchmark.batchSize, browser |-> benchmark.browser,
     headed |-> benchmark.headed, environment |-> NoEnvironment]

\* path.join of names free of "." and ".." segments
PathJoin(segments) == Join(segments, "/")

\* BenchmarkStorage.getBenchmarkFilePath(benchmark), relative to baseDir
GetBenchmarkFilePath(benchmark) ==
    LET p == GenerateBenchmarkPath(StorageSettings(benchmark))
    IN  PathJoin(<<p.dir, p.filename>>)

\* ------------------------------------------------- the uploader's path
\* fullPath.replace(/\.jsonl$/, ".json")
ReplaceJsonlExtension(path) ==
    IF Len(path) >= 6 /\ SubSeq(path, Len(path) - 5, Len(path)) = ".jsonl"
    THEN SubSeq(path, 1, Len(path) - 6) \o ".json"
    ELSE path

\* The settings HFDatasetUploader.getHFFilePath builds from a benchmark: the
\* request fields, and the environment of the result if there is one.
HFSettings(benchmark) ==
    [platform |-> benchmark.platform, modelId |-> benchmark.modelId,
     task |-> benchmark.task, mode |-> benchmark.mode,
     device |-> benchmark.device, dtype |-> benchmark.dtype,
     batchSize |-> benchmark.batchSize, browser |-> benchmark.browser,
     headed |-> benchmark.headed,
     environment |-> IF benchmark.environment.defined THEN benchmark.environment
                     ELSE NoEnvironment]

\* HFDatasetUploader.getHFFilePath(benchmark)
GetHFFilePath(benchmark) ==
    ReplaceJsonlExtension(GenerateBenchmarkPath(HFSettings(benchmark)).fullPath)

\* The terminal records: the request fields, and the environment that the
\* result of a completed run reports (none for a failed run).
TerminalRecords == BenchmarkSettings({"fill-mask"}, {"org/bert"}, Environments)

\* ------------------------------------------------- the client's path
\* generateBenchmarkPath(combo) of the command-line client
Client_GenerateBenchmarkPath(combo) ==
    LET parts == Split(combo.modelId, "/")
        org == IF Len(parts) > 1 THEN parts[1] ELSE "default"
        modelName == IF Len(parts) > 1 THEN parts[2] ELSE parts[1]
        filenameParts ==
            <<combo.platform, combo.mode, combo.device,
              "b" \o ToString(combo.batchSize)>>
            \o Opt(combo.dtype # "" /\ combo.dtype # "fp32", combo.dtype)
            \o Opt(combo.platform = "web" /\ combo.browser # "", combo.browser)
            \o Opt(combo.platform = "web" /\ combo.headed, "headed")
        filename == Join(filenameParts, "_") \o ".json"
    IN  Join(<<combo.task, org, modelName, filename>>, "/")

\* The combinations the batch command enumerates: the settings without
\* environment, the default dtype included.
Combinations ==
    {[s EXCEPT !.dtype = d] :
        s \in BenchmarkSettings({"fill-mask"}, ModelIds, {NoEnvironment}),
        d \in Dtypes \cup {"fp32"}}

\* ------------------------------------------------- the command line
Repeats == 3

\* A request as the server enqueues it: the settings and the repeat count.
BenchmarkRequest(s) ==
    [platform |-> s.platform, modelId |-> s.modelId, task |-> s.task,
     mode |-> s.mode, repeats |-> Repeats, device |-> s.device,
     dtype |-> s.dtype, batchSize |-> s.batchSize, browser |-> s.browser,
     headed |-> s.headed]

\* The argument list of the node runner.
NodeArgs(request) ==
    <<"src/node/index.ts", request.modelId, request.task,
      "--mode=" \o request.mode,
      "--repeats=" \o ToString(request.repeats),
      "--batch-size=" \o ToString(request.batchSize)>>
    \o Opt(request.dtype # "", "--dtype=" \o request.dtype)

\* The argument list of the web runner.
WebArgs(request) ==
    <<"src/web/cli.ts", request.modelId, request.task,
      "--mode=" \o request.mode,
      "--repeats=" \o ToString(request.repeats),
      "--device=" \o (IF request.device # "" THEN request.device ELSE "webgpu"),
      "--batch-size=" \o ToString(request.batchSize)>>
    \o Opt(request.dtype # "", "--dtype=" \o request.dtype)
    \o Opt(request.browser # "", "--browser=" \o request.browser)
    \o Opt(request.headed, "--headed=true")

\* The arguments runBenchmark hands to spawn("tsx", args).
CommandArgs(request) ==
    IF request.platform = "node" THEN NodeArgs(request) ELSE WebArgs(request)

\* The requests that are dispatched: batchSize is a positive integer.
Requests ==
    {BenchmarkRequest(s) :
        s \in {t \in BenchmarkSettings({"fill-mask"}, {"org/bert"}, {NoEnvironment}) :
                 t.batchSize >= 1}}

\* generateBenchmarkId(settings)
GenerateBenchmarkId(settings) ==
    settings.task \o "/" \o settings.modelId \o "/"
    \o Join(GenerateFilenameParts(settings), "_")

\* The settings without environment whose device, dtype and browser are
\* absent or among the values parseBenchmarkId knows.
RecognizedSettings ==
    {s \in BenchmarkSettings({"fill-mask"}, ModelIds, {NoEnvironment}) :
        /\ s.device \in KnownDevices \cup {""}
        /\ s.dtype \in KnownDtypes \cup {""}
        /\ s.browser \in KnownBrowsers \cup {""}}

\* The default device of the platform (benchmark-id.ts, "3. Device").
DefaultDevice(platform) == IF platform = "node" THEN "cpu" ELSE "webgpu"

\* The settings that leave the device absent, with every environment.
DevicelessSettings ==
    {s \in BenchmarkSettings({"fill-mask"}, {"org/bert"}, Environments) : s.device = ""}

\* A stored record: its id and the request fields.
StoredBenchmark(id, task, modelId, dtype) ==
    [id |-> id, task |-> task, modelId |-> modelId, platform |-> "node",
     mode |-> "warm", device |-> "cpu", dtype |-> dtype, batchSize |-> 1,
     browser |-> "", headed |-> FALSE]

\* ------------------------------------------------- the resolved local path
\* path.resolve("./benchmark-results") under the working directory /srv,
\* as the segments of the absolute path.
BaseDir == <<"srv", "benchmark-results">>

\* The normalization path.join applies to an absolute path: empty segments
\* and "." are dropped, ".." removes the segment before it (none at the root).
RECURSIVE NormalizeSegments(_, _)
NormalizeSegments(done, rest) ==
    IF rest = <<>> THEN done
    ELSE IF Head(rest) \in {"", "."} THEN NormalizeSegments(done, Tail(rest))
    ELSE IF Head(rest) = ".."
         THEN NormalizeSegments(IF done = <<>> THEN <<>>
                                ELSE SubSeq(done, 1, Len(done) - 1), Tail(rest))
    ELSE NormalizeSegments(Append(done, Head(rest)), Tail(rest))

\* path.join(this.baseDir, dir, filename) of getBenchmarkFilePath, as the
\* segments of the absolute path.
ResolvedBenchmarkFilePath(benchmark) ==
    LET p == GenerateBenchmarkPath(StorageSettings(benchmark))
    IN  NormalizeSegments(<<>>, BaseDir \o Split(p.dir, "/") \o Split(p.filename, "/"))

\* The records the server accepts: task and modelId are any non-empty
\* strings (z.string().min(1)).
AcceptedTasks == {"fill-mask", "..", "../..", "fill-mask/.."}
AcceptedModelIds == {"org/bert", "bert", "..", "../..", "org//bert", "../benchmark-results/bert"}

AcceptedRecords ==
    {StoredBenchmark(1, t, m, d) : t \in AcceptedTasks, m \in AcceptedModelIds, d \in Dtypes}

\* ---- the strings sanitizeEnvString is applied to
MaxEnvLen == 3

EnvChars == {"A", "b", "7", " ", "-", "(", "_"}

\* Environment facts longer than the limit.
LongEnvStrings ==
    {"Intel(R) Core(TM) i7-9750H CPU @ 2.60GHz",
     "AMD Ryzen Threadripper PRO 5995WX",
     "abcdefghijklmnopqrstuvwxyz",
     "ABCDEFGHIJKLMNOPQRS  \tTUV",
     "(((((((((((((((((((((12345678901234567890123"}

EnvStrings ==
    {Join(cs, "") : cs \in SeqsOver(EnvChars, MaxEnvLen)} \cup LongEnvStrings

\* ---- the ids parseBenchmarkId is applied to
FilenameTokens ==
    {"node", "warm", "cpu", "q8", "b2", "chromium", "headed", "xyz", "bogus"}

MalformedIds == {"", "fill-mask", "/", "///", "fill-mask/bert/node_warm_cpu_b2"}

BenchmarkIds ==
    {"fill-mask/org/bert/" \o Join(ts, "_") : ts \in SeqsOver(FilenameTokens, MaxTokens)}
    \cup MalformedIds

PathInit ==
    /\ QueueIdle
    /\ files = NoFiles
    /\ call \in
         {Pending("generateFilenameParts", s) :
             s \in BenchmarkSettings({"fill-mask"}, {"org/bert"}, Environments)}
         \cup UNION {{Pending("generateBenchmarkPath", <<s, t>>) : t \in Neighbours(s)} :
                       s \in BenchmarkSettings(Tasks, ModelIds, {NoEnvironment})}
         \cup {Pending("parseBenchmarkId", id) : id \in BenchmarkIds}
         \cup {Pending("client.generateBenchmarkPath", c) : c \in Combinations}
         \cup {Pending("runBenchmark", r) : r \in Requests}
         \cup {Pending("getHFFilePath", b) : b \in TerminalRecords}
         \cup {Pending("sanitizeEnvString", str) : str \in EnvStrings}
         \cup {Pending("generateBenchmarkId", s) : s \in RecognizedSettings}
         \cup {Pending("generateBenchmarkPath.device", s) : s \in DevicelessSettings}
         \cup {Pending("getBenchmarkFilePath", b) : b \in AcceptedRecords}

CallGenerateFilenameParts ==
    /\ call.fn = "generateFilenameParts"
    /\ ~call.returned
    /\ call' = Return(call, GenerateFilenameParts(call.arg))
    /\ UNCHANGED <<QueueVars, files>>

\* generateBenchmarkPath, applied to each of two settings.
CallGenerateBenchmarkPath ==
    /\ call.fn = "generateBenchmarkPath"
    /\ ~call.returned
    /\ call' = Return(call, <<GenerateBenchmarkPath(call.arg[1]),
                              GenerateBenchmarkPath(call.arg[2])>>)
    /\ UNCHANGED <<QueueVars, files>>

CallParseBenchmarkId ==
    /\ call.fn = "parseBenchmarkId"
    /\ ~call.returned
    /\ call' = Return(call, ParseBenchmarkId(call.arg))
    /\ UNCHANGED <<QueueVars, files>>

CallClientGenerateBenchmarkPath ==
    /\ call.fn = "client.generateBenchmarkPath"
    /\ ~call.returned
    /\ call' = Return(call, Client_GenerateBenchmarkPath(call.arg))
    /\ UNCHANGED <<QueueVars, files>>

\* runBenchmark(request) up to the spawn of the command.
CallRunBenchmark ==
    /\ call.fn = "runBenchmark"
    /\ ~call.returned
    /\ call' = Return(call, CommandArgs(call.arg))
    /\ UNCHANGED <<QueueVars, files>>

\* uploadResult(benchmark) up to the path of the uploaded file.
CallGetHFFilePath ==
    /\ call.fn = "getHFFilePath"
    /\ ~call.returned
    /\ call' = Return(call, GetHFFilePath(call.arg))
    /\ UNCHANGED <<QueueVars, files>>

\* sanitizeEnvString(str), and sanitizeEnvString applied to its result.
CallSanitizeEnvString ==
    /\ call.fn = "sanitizeEnvString"
    /\ ~call.returned
    /\ call' = Return(call, [once |-> SanitizeEnvString(call.arg),
                             twice |-> SanitizeEnvString(SanitizeEnvString(call.arg))])
    /\ UNCHANGED <<QueueVars, files>>

\* generateBenchmarkId(settings), and parseBenchmarkId applied to the id.
CallGenerateBenchmarkId ==
    /\ call.fn = "generateBenchmarkId"
    /\ ~call.returned
    /\ call' = Return(call, [id |-> GenerateBenchmarkId(call.arg),
                             parsed |-> ParseBenchmarkId(GenerateBenchmarkId(call.arg))])
    /\ UNCHANGED <<QueueVars, files>>

\* generateBenchmarkPath for settings without device, and for the same
\* settings with the default device of the platform spelled out.
CallGenerateBenchmarkPathDevice ==
    /\ call.fn = "generateBenchmarkPath.device"
    /\ ~call.returned
    /\ call' = Return(call,
          [absent |-> GenerateBenchmarkPath(call.arg),
           explicit |-> GenerateBenchmarkPath(
                          [call.arg EXCEPT !.device = DefaultDevice(call.arg.platform)])])
    /\ UNCHANGED <<QueueVars, files>>

\* getBenchmarkFilePath(benchmark) of appendResult.
CallGetBenchmarkFilePath ==
    /\ call.fn = "getBenchmarkFilePath"
    /\ ~call.returned
    /\ call' = Return(call, ResolvedBenchmarkFilePath(call.arg))
    /\ UNCHANGED <<QueueVars, files>>

PathNext ==
    \/ CallGetBenchmarkFilePath
    \/ CallGenerateBenchmarkPathDevice
    \/ CallGenerateBenchmarkId
    \/ CallSanitizeEnvString
    \/ CallGetHFFilePath
    \/ CallGenerateFilenameParts
    \/ CallGenerateBenchmarkPath
    \/ CallParseBenchmarkId
    \/ CallClientGenerateBenchmarkPath
    \/ CallRunBenchmark

PathSpec == PathInit /\ [][PathNext]_vars

\* C14: two settings, taken with their defaults (device: cpu for node and
\* webgpu for web; batchSize: 1) and without environment, have the same
\* fullPath exactly when they are equal in task, modelId, platform, mode,
\* device, dtype and batchSize and, for web, in browser and headed.
C14_PathInjective ==
    Returned("generateBenchmarkPath") =>
        LET Identity(s) ==
                <<s.task, s.modelId, s.platform, s.mode,
                  IF s.device # "" THEN s.device
                  ELSE IF s.platform = "node" THEN "cpu" ELSE "webgpu",
                  s.dtype,
                  IF s.batchSize # 0 THEN s.batchSize ELSE 1,
                  IF s.platform = "web" THEN s.browser ELSE "",
                  s.platform = "web" /\ s.headed>>
        IN  (Identity(call.arg[1]) = Identity(call.arg[2]))
                <=> (call.out[1].fullPath = call.out[2].fullPath)

\* C15: the parts are platform, mode, the device or the platform's default,
\* the dtype if set, b<batchSize> with default 1, for web the browser if set
\* and "headed" if set, in this order; only environment tokens follow, none
\* without environment; no part is empty.
C15_PartsOrder ==
    Returned("generateFilenameParts") =>
        LET s == call.arg
            fixed ==
                <<s.platform, s.mode,
                  IF s.device # "" THEN s.device
                  ELSE IF s.platform = "node" THEN "cpu" ELSE "webgpu">>
                \o (IF s.dtype # "" THEN <<s.dtype>> ELSE <<>>)
                \o <<"b" \o ToString(IF s.batchSize # 0 THEN s.batchSize ELSE 1)>>
                \o (IF s.platform = "web" /\ s.browser # "" THEN <<s.browser>> ELSE <<>>)
                \o (IF s.platform = "web" /\ s.headed THEN <<"headed">> ELSE <<>>)
        IN  /\ Len(call.out) >= Len(fixed)
            /\ SubSeq(call.out, 1, Len(fixed)) = fixed
            /\ ~s.environment.defined => Len(call.out) = Len(fixed)
            /\ \A i \in 1..Len(call.out) : call.out[i] # ""

\* A web run without device and dtype, with browser, headed and environment.
C15_Witness ==
    /\ Returned("generateFilenameParts")
    /\ call.arg.platform = "web"
    /\ call.arg.device = ""
    /\ call.arg.dtype = ""
    /\ call.arg.batchSize = 0
    /\ call.arg.browser # ""
    /\ call.arg.headed
    /\ call.arg.environment = WebEnvironment
    /\ call.out = <<"web", call.arg.mode, "webgpu", "b1", call.arg.browser, "headed",
                    "4c", "8gb">>

\* ====================================== failure paths of the close handler
\* C16: the error of a job whose child exited with a non-zero code embeds
\* at most an excerpt of the captured stderr.
C16_BoundedStderr ==
    \A j \in Recs :
        (queue[j].status = "failed" /\ queue[j].error.kind = "exit")
            => queue[j].error.text <= EXCERPT_CHARS

\* C17: a run whose close handler saw a signal before the timeout fired is
\* failed with the killed-by-signal error that names this signal.
C17_SignalClose ==
    \A j \in Recs :
        (runs[j].closeSignal # "" /\ runs[j].timeoutId # "fired")
            => /\ queue[j].status = "failed"
               /\ queue[j].error = SignalError(runs[j].closeSignal)
               /\ queue[j].result = "none"

\* A child that was terminated from outside while its timeout was pending.
C17_Witness ==
    \E j \in Recs :
        /\ runs[j].closeSignal = "SIGTERM"
        /\ runs[j].timeoutId = "cleared"
        /\ runs[j].signals = <<>>
        /\ queue[j].status = "failed"
        /\ queue[j].error.kind = "signal"

\* C18: once the `error` event of a failed spawn has arrived the record is
\* failed with the spawn error; a record with the spawn error has its
\* timeout cancelled, never fired, and no signal sent; the failure leaves
\* the queue idle with a deferred callback outstanding, from which the
\* oldest pending record is eventually started.
C18_SpawnFailure ==
    /\ [](\A j \in Recs :
            /\ runs[j].proc = "errored" =>
                  (queue[j].status = "failed" /\ queue[j].error = SpawnError)
            /\ queue[j].error.kind = "spawn" =>
                  /\ queue[j].status = "failed"
                  /\ runs[j].timeoutId = "cleared"
                  /\ runs[j].killTimer = "unset"
                  /\ runs[j].signals = <<>>)
    /\ [][\A j \in Recs : (runs[j].proc = "nospawn" /\ runs'[j].proc = "errored")
            => (~isProcessing' /\ immediates' = immediates + 1)]_vars
    /\ \A k \in JobIdx :
          (/\ events # <<>> /\ LastEvent.type = "failed"
           /\ queue[LastEvent.idx].error.kind = "spawn"
           /\ immediates > 0
           /\ FindPending(queue) = k)
              ~> (k \in Recs /\ queue[k].status # "pending")

\* A record runs after the spawn of its predecessor failed.
C18_Witness ==
    \E j \in Recs, k \in Recs :
        /\ queue[j].error = SpawnError
        /\ runs[j].timeoutId = "cleared"
        /\ EventPos("started", k) # {}
        /\ \A p \in EventPos("started", k), f \in EventPos("failed", j) : f < p

\* C19: the error of a job whose child exited with code 0 and no result
\* embeds an excerpt of the captured stderr when the child wrote any.
C19_NoResultExcerpts ==
    \A j \in Recs :
        (queue[j].status = "failed" /\ queue[j].error.kind = "noresult"
            /\ runs[j].stderr > 0)
            => queue[j].error.text > 0

\* ================================================================ metrics
\* A number is an exact decimal held in thousandths; the samples are
\* multiples of a hundredth and q is held in tenths, so that the
\* interpolation is exact.  A JavaScript value is a number, NaN or
\* undefined; "throw" stands for an exception.
MaxSamples == 2

Number(milli) == [kind |-> "number", milli |-> milli]
NaN == [kind |-> "NaN", milli |-> 0]
Undefined == [kind |-> "undefined", milli |-> 0]
Throw == [kind |-> "throw", milli |-> 0]

\* [...values].sort((x, y) => x - y)
RECURSIVE SortAscending(_)
SortAscending(values) ==
    IF values = <<>> THEN <<>>
    ELSE LET m == CHOOSE i \in 1..Len(values) :
                     \A k \in 1..Len(values) : values[i] <= values[k]
         IN  <<values[m]>>
             \o SortAscending(SubSeq(values, 1, m - 1)
                              \o SubSeq(values, m + 1, Len(values)))

\* a[i] for a zero-based index
ArrayGet(a, i) == IF i \in 0..(Len(a) - 1) THEN Number(a[i + 1]) ELSE Undefined

\* Math.floor and Math.ceil of tenths
FloorTenths(t) == t \div 10
CeilTenths(t) == -((-t) \div 10)

\* x + (y - x) * frac, with frac in tenths
Interpolate(x, y, fracTenths) ==
    IF x.kind # "number" \/ y.kind # "number" THEN NaN
    ELSE Number(x.milli + ((y.milli - x.milli) * fracTenths) \div 10)

\* Variant: values.sort(...), which sorts the caller's array in place.
SortedCopy_InPlace(values) ==
    [a |-> SortAscending(values), values |-> SortAscending(values)]

\* const a = [...values].sort((x, y) => x - y): the sorted array a, and the
\* caller's array values as the statement leaves it.
SortedCopy(values) ==
    [a |-> SortAscending(values), values |-> values]

\* Variant: the element at the floor of the index, without interpolation.
Percentile_Floor(values, qTenths) ==
    LET a == SortAscending(values)
    IN  ArrayGet(a, FloorTenths((Len(a) - 1) * qTenths))

\* percentile(values, q), q in tenths
Percentile(values, qTenths) ==
    LET a == SortedCopy(values).a
        i == (Len(a) - 1) * qTenths
        i0 == FloorTenths(i)
        i1 == CeilTenths(i)
    IN  IF i0 = i1 THEN ArrayGet(a, i0)
        ELSE Interpolate(ArrayGet(a, i0), ArrayGet(a, i1), i - 10 * i0)

\* +x.toFixed(1): the nearest tenth, a half rounded away from zero; NaN
\* stays NaN; undefined has no toFixed.
ToFixed1(x) ==
    IF x.kind = "number"
    THEN Number(IF x.milli >= 0 THEN ((x.milli + 50) \div 100) * 100
                ELSE -(((-x.milli) + 50) \div 100) * 100)
    ELSE IF x.kind = "NaN" THEN NaN
    ELSE Throw

\* { p50, p90, raw }: raw is the array that was handed to percentile twice.
Summary(raw) ==
    [p50 |-> ToFixed1(Percentile(raw, 5)), p90 |-> ToFixed1(Percentile(raw, 9)),
     raw |-> SortedCopy(SortedCopy(raw).values).values]

RECURSIVE Subsequents(_)
Subsequents(results) ==
    IF results = <<>> THEN <<>>
    ELSE Head(results).subsequent_infer_ms \o Subsequents(Tail(results))

\* aggregateMetrics(results)
AggregateMetrics(results) ==
    LET loads == [k \in 1..Len(results) |-> results[k].load_ms]
        firsts == [k \in 1..Len(results) |-> results[k].first_infer_ms]
        metrics == [load_ms |-> Summary(loads),
                    first_infer_ms |-> Summary(firsts),
                    subsequent_infer_ms |-> Summary(Subsequents(results))]
    IN  IF \E f \in DOMAIN metrics : Throw \in {metrics[f].p50, metrics[f].p90}
        THEN [kind |-> "throw", metrics |-> metrics]
        ELSE [kind |-> "object", metrics |-> metrics]

\* ---- the samples the functions are applied to, in thousandths of a ms
SampleValues == {10000, 20000, 20250}
Quantiles == {0, 3, 5, 9, 10}

\* The samples 10, 20, 30, 40 in two orders.
FourSamples == {<<10000, 20000, 30000, 40000>>, <<40000, 10000, 30000, 20000>>}

SeqsUpTo(S, n) == UNION {[1..k -> S] : k \in 0..n}

BenchmarkRawResults ==
    [load_ms : {40000, 20250}, first_infer_ms : {10000},
     subsequent_infer_ms : SeqsUpTo({10000, 20250}, MaxSamples)]

MetricsInit ==
    /\ QueueIdle
    /\ files = NoFiles
    /\ call \in
         {Pending("percentile", [values |-> v, q |-> q]) :
             v \in SeqsUpTo(SampleValues, MaxSamples + 1) \cup FourSamples,
             q \in Quantiles}
         \cup {Pending("aggregateMetrics", r) :
                 r \in SeqsUpTo(BenchmarkRawResults, MaxSamples)}

CallPercentile ==
    /\ call.fn = "percentile"
    /\ ~call.returned
    /\ call' = [Return(call, Percentile(call.arg.values, call.arg.q)) EXCEPT
                    !.arg.values = SortedCopy(call.arg.values).values]
    /\ UNCHANGED <<QueueVars, files>>

CallAggregateMetrics ==
    /\ call.fn = "aggregateMetrics"
    /\ ~call.returned
    /\ call' = Return(call, AggregateMetrics(call.arg))
    /\ UNCHANGED <<QueueVars, files>>

MetricsNext == CallPercentile \/ CallAggregateMetrics

MetricsSpec == MetricsInit /\ [][MetricsNext]_vars

\* C20: percentile and aggregateMetrics, called with no sample, throw.
C20_EmptyIsInvalidInput ==
    /\ (Returned("percentile") /\ call.arg.values = <<>>) => call.out.kind = "throw"
    /\ (Returned("aggregateMetrics") /\ call.arg = <<>>) => call.out.kind = "throw"

C22_ParseInOrder ==
    Returned("parseBenchmarkId") =>
        LET a == call.out.assigned
            Rank(f) == CHOOSE k \in 1..Len(FieldOrder) : FieldOrder[k] = f
        IN  /\ \A k \in 1..Len(a) :
                  /\ a[k].token = k
                  /\ k <= Len(call.out.parts)
                  /\ a[k].field \in {FieldOrder[r] : r \in 1..Len(FieldOrder)}
                  /\ Recognizes(a[k].field, call.out.parts[k])
            /\ \A k \in 1..(Len(a) - 1) : Rank(a[k].field) < Rank(a[k + 1].field)

\* A filename whose optional dtype is missing and whose fourth token is not
\* recognized: three fields are assigned, the tokens behind are not.
C22_Witness ==
    /\ Returned("parseBenchmarkId")
    /\ call.arg = "fill-mask/org/bert/node_warm_b2_xyz"
    /\ call.out.has
    /\ call.out.modelId = "org/bert"
    /\ call.out.assigned = <<[field |-> "platform", token |-> 1],
                             [field |-> "mode", token |-> 2],
                             [field |-> "batchSize", token |-> 3]>>

\* C23: no step removes or reorders a record, so the number of records never
\* decreases; a completed record carries a result and a failed record an
\* error; and for a completed or failed record getBenchmark(id) returns
\* that record, unchanged, after every later step.
C23_RecordsKept ==
    /\ [](\A j \in Recs :
            /\ queue[j].status = "completed" => queue[j].result # "none"
            /\ queue[j].status = "failed" => queue[j].error # NoError
            /\ queue[j].status \in Terminal =>
                  GetBenchmark(queue, queue[j].id) = j)
    /\ [][/\ Len(queue') >= Len(queue)
          /\ Len(GetAllBenchmarks(queue')) >= Len(GetAllBenchmarks(queue))
          /\ \A j \in Recs :
                /\ queue'[j].id = queue[j].id
                /\ queue[j].status \in Terminal =>
                      /\ GetBenchmark(queue', queue[j].id) = j
                      /\ queue'[j] = queue[j]]_vars

\* A failed record is still there, with its error, after a later record
\* was enqueued and ran to completion.
C23_Witness ==
    /\ Len(queue) >= 2
    /\ queue[1].status = "failed"
    /\ queue[1].error # NoError
    /\ queue[2].status = "completed"
    /\ GetBenchmark(queue, 1) = 1

MaxStored == 2

\* fs.appendFile after fs.mkdir(dir, { recursive: true })
AppendFile(fs, filePath, line) ==
    [f \in DOMAIN fs \cup {filePath} |->
        IF f = filePath
        THEN (IF f \in DOMAIN fs THEN Append(fs[f], line) ELSE <<line>>)
        ELSE fs[f]]

\* Whether the file lies in the directory dir or in one below it.
IsUnder(filePath, dir) ==
    LET f == Split(filePath, "/")
        d == Split(dir, "/")
    IN  Len(d) < Len(f) /\ SubSeq(f, 1, Len(d)) = d

HasJsonlExtension(name) ==
    Len(name) >= 6 /\ SubSeq(name, Len(name) - 5, Len(name)) = ".jsonl"

\* findAllJsonlFiles(dir), dir relative to baseDir; no such directory: none
FindAllJsonlFiles(fs, dir) ==
    {f \in DOMAIN fs : IsUnder(f, dir) /\ HasJsonlExtension(f)}

\* The lines of a file, parsed.
ReadJsonlFile(fs, filePath) ==
    IF filePath \in DOMAIN fs THEN {fs[filePath][k] : k \in 1..Len(fs[filePath])}
    ELSE {}

\* BenchmarkStorage.getResultsByModel(modelId): the results it returns, as a
\* set (the order follows readdir).
GetResultsByModel(fs, modelId) ==
    UNION {ReadJsonlFile(fs, f) : f \in FindAllJsonlFiles(fs, PathJoin(<<modelId>>))}

\* Every stored result.
StoredResults(fs) == UNION {ReadJsonlFile(fs, f) : f \in DOMAIN fs}

\* ---- the benchmarks that are stored and the model ids that are queried
StoredTasks == {"fill-mask", "org"}
StoredModelIds == {"bert", "org/bert"}

StorageInit ==
    /\ QueueIdle
    /\ files = NoFiles
    /\ call = NoCall

\* storage.appendResult(benchmark), the subscriber of `completed` and `failed`
AppendResult(benchmark) ==
    /\ Cardinality(StoredResults(files)) < MaxStored
    /\ files' = AppendFile(files, GetBenchmarkFilePath(benchmark), benchmark)
    /\ call' = Return(Pending("appendResult", benchmark), GetBenchmarkFilePath(benchmark))
    /\ UNCHANGED QueueVars

\* GET /api/benchmarks?modelId=...
CallGetResultsByModel(modelId) ==
    /\ call' = Return(Pending("getResultsByModel", modelId),
                      GetResultsByModel(files, modelId))
    /\ UNCHANGED <<QueueVars, files>>

StorageNext ==
    \/ \E t \in StoredTasks, m \in StoredModelIds, d \in Dtypes :
          AppendResult(StoredBenchmark(Cardinality(StoredResults(files)) + 1, t, m, d))
    \/ \E m \in StoredModelIds : CallGetResultsByModel(m)

StorageSpec == StorageInit /\ [][StorageNext]_vars

C26_SettledOnce ==
    /\ [](\A j \in Recs :
            runs[j].timeoutId = "fired" =>
                /\ queue[j].status = "failed"
                /\ queue[j].error = TimeoutError(BENCHMARK_TIMEOUT))
    /\ [][\A j \in Recs :
            runs[j].isResolved =>
                /\ runs'[j].isResolved
                /\ queue'[j] = queue[j]
                /\ runs[j].timeoutId # "fired" =>
                      /\ runs'[j].timeoutId = runs[j].timeoutId
                      /\ runs'[j].signals = runs[j].signals
                      /\ runs'[j].killTimer = runs[j].killTimer]_vars

\* The child of a timed-out job was killed and has closed; the record
\* carries the timeout error.
C26_Witness ==
    /\ Len(queue) >= 1
    /\ runs[1].timeoutId = "fired"
    /\ runs[1].proc = "exited"
    /\ "SIGTERM" \in Delivered(runs[1])
    /\ queue[1].error = TimeoutError(BENCHMARK_TIMEOUT)

\* C27: a pending record has no startedAt, completedAt, result or error; a
\* running record has startedAt and no completedAt, result or error; a
\* completed record has result, startedAt and completedAt and no error; a
\* failed record has error, startedAt and completedAt and no result.
C27_FieldsPerStatus ==
    \A j \in Recs :
        LET b == queue[j]
        IN  /\ b.status = "pending" =>
                  ~b.startedAt /\ ~b.completedAt /\ b.result = "none" /\ b.error = NoError
            /\ b.status = "running" =>
                  b.startedAt /\ ~b.completedAt /\ b.result = "none" /\ b.error = NoError
            /\ b.status = "completed" =>
                  b.startedAt /\ b.completedAt /\ b.result # "none" /\ b.error = NoError
            /\ b.status = "failed" =>
                  b.startedAt /\ b.completedAt /\ b.result = "none" /\ b.error # NoError

\* Whether the string starts with the prefix.
StartsWith(str, prefix) ==
    Len(str) >= Len(prefix) /\ SubSeq(str, 1, Len(prefix)) = prefix

\* getArg(name) of the runners, applied to the argument list: the value of
\* --name=value, else the argument behind --name, else undefined ("").
GetArg(argv, name) ==
    LET eq == {i \in 1..Len(argv) : StartsWith(argv[i], "--" \o name \o "=")}
        at == {i \in 1..Len(argv) : argv[i] = "--" \o name}
        First(S) == CHOOSE i \in S : \A k \in S : i <= k
    IN  IF eq # {} THEN Split(argv[First(eq)], "=")[2]
        ELSE IF at # {} /\ First(at) + 1 <= Len(argv) THEN argv[First(at) + 1]
        ELSE ""

\* C28: the command line carries every field the filename of the stored
\* result encodes, with the same value: mode, device, dtype, batch size,
\* and on the web platform browser and headed.
C28_ArgsMatchFilename ==
    Returned("runBenchmark") =>
        LET s == StorageSettings(call.arg)
            args == call.out
            web == s.platform = "web"
        IN  /\ GenerateFilenameParts(s) =
                  <<s.platform, GetArg(args, "mode"), GetArg(args, "device")>>
                  \o Opt(GetArg(args, "dtype") # "", GetArg(args, "dtype"))
                  \o <<"b" \o GetArg(args, "batch-size")>>
                  \o Opt(web /\ GetArg(args, "browser") # "", GetArg(args, "browser"))
                  \o Opt(web /\ GetArg(args, "headed") = "true", "headed")

\* The path without its extension.
WithoutExtension(path) ==
    IF LastIndexOf(path, ".") = 0 THEN path
    ELSE SubSeq(path, 1, LastIndexOf(path, ".") - 1)

\* C29: for every terminal record the path of the uploaded file and the
\* path of the local file are the same apart from the extension, whatever
\* environment the result of the record reports.
C29_OnePathPolicy ==
    Returned("getHFFilePath") =>
        WithoutExtension(call.out) = WithoutExtension(GetBenchmarkFilePath(call.arg))

\* C30: a call of percentile or of aggregateMetrics leaves the caller's
\* arrays as they were, and the raw sequences that aggregateMetrics returns
\* are in collection order: one load and one first inference per sample in
\* input order, and the samples' subsequent inferences concatenated in
\* input order.
C30_RawInCollectionOrder ==
    [][(~call.returned /\ call'.returned
            /\ call'.fn \in {"percentile", "aggregateMetrics"}) =>
          /\ call'.arg = call.arg
          /\ call'.fn = "aggregateMetrics" =>
                LET results == call.arg
                    m == call'.out.metrics
                IN  /\ m.load_ms.raw = [k \in 1..Len(results) |-> results[k].load_ms]
                    /\ m.first_infer_ms.raw =
                          [k \in 1..Len(results) |-> results[k].first_infer_ms]
                    /\ m.subsequent_infer_ms.raw = Subsequents(results)]_vars

\* Two samples whose loads and subsequent inferences are not in ascending
\* order, returned as they were collected.
C30_Witness ==
    /\ Returned("aggregateMetrics")
    /\ Len(call.arg) = 2
    /\ call.arg[1].load_ms = 40000
    /\ call.arg[2].load_ms = 20250
    /\ call.arg[1].subsequent_infer_ms = <<20250, 10000>>
    /\ call.out.kind = "object"
    /\ call.out.metrics.load_ms.raw = <<40000, 20250>>
    /\ SubSeq(call.out.metrics.subsequent_infer_ms.raw, 1, 2) = <<20250, 10000>>

\* C31: sanitizeEnvString returns at most 20 characters, each of them a
\* lower-case letter, a digit or "-", and applying it to its own result
\* returns that result.
C31_SanitizeIdempotent ==
    Returned("sanitizeEnvString") =>
        /\ Len(call.out.once) <= 20
        /\ \A i \in 1..Len(call.out.once) :
              SubSeq(call.out.once, i, i) \in
                  {SubSeq("abcdefghijklmnopqrstuvwxyz0123456789-", k, k) : k \in 1..37}
        /\ call.out.twice = call.out.once

\* A CPU model of forty characters, cut to twenty after the parentheses
\* and the "@" were dropped and the blanks became dashes.
C31_Witness ==
    /\ Returned("sanitizeEnvString")
    /\ call.arg = "Intel(R) Core(TM) i7-9750H CPU @ 2.60GHz"
    /\ call.out.once = "intelr-coretm-i7-975"
    /\ call.out.twice = call.out.once

\* ------------------------------------------- listeners that call addBenchmark
\* addBenchmark called by a listener, i.e. in the middle of a handler: push,
\* emit("added"), processQueue().
ListenerAdds(st, thrStarted) ==
    ProcessQueue([st EXCEPT !.queue = Append(@, QueuedBenchmark(Len(st.queue) + 1)),
                            !.runs = Append(@, NoRun),
                            !.added = Append(@, Len(st.queue) + 1)],
                 thrStarted)

\* A handler that ended with the emission of a terminal event, replayed with
\* a listener of that event that calls addBenchmark: the listener runs before
\* the finally block, which is the only writer of isProcessing and immediates
\* in the handler.
TerminalReentry(before, after) ==
    IF Len(after.events) > Len(before.events)
    THEN Finally(ListenerAdds([after EXCEPT !.isProcessing = before.isProcessing,
                                            !.immediates = before.immediates],
                              FALSE))
    ELSE after

\* addBenchmark whose `added` listener calls addBenchmark for a second
\* request: the inner call runs to its end before the outer processQueue().
AddBenchmarkFromAdded(thrStarted) ==
    /\ Len(queue) + 2 <= MaxJobs
    /\ LET pushed == [St EXCEPT !.queue = Append(@, QueuedBenchmark(Len(queue) + 1)),
                                !.runs = Append(@, NoRun),
                                !.added = Append(@, Len(queue) + 1)]
       IN  Apply(ProcessQueue(ListenerAdds(pushed, thrStarted), FALSE))

\* addBenchmark on an idle queue whose `started` listener calls addBenchmark
\* for a second request, before runBenchmark is called.
AddBenchmarkFromStarted ==
    /\ Len(queue) + 2 <= MaxJobs
    /\ ~isProcessing
    /\ LET pushed == [St EXCEPT !.queue = Append(@, QueuedBenchmark(Len(queue) + 1)),
                                !.runs = Append(@, NoRun),
                                !.added = Append(@, Len(queue) + 1)]
       IN  Apply(ListenerAdds(StartRecord(pushed, FindPending(pushed.queue), FALSE),
                              FALSE))

\* `close` of a child whose job's `completed` or `failed` listener calls
\* addBenchmark.
ProcCloseReentrant(j, code, signal, stderr, extracted) ==
    /\ Len(queue) < MaxJobs
    /\ j \in 1..Len(queue)
    /\ runs[j].proc = "alive"
    /\ <<code, signal>> \in CloseOutcomes
    /\ signal = "SIGKILL" => "SIGKILL" \in Delivered(runs[j])
    /\ LET before == [St EXCEPT !.runs[j].proc = "exited"]
       IN  Apply(TerminalReentry(before,
                    CloseHandler(before, j, code, signal, stderr, extracted, FALSE)))

ReentrantNext ==
    \/ Next
    \/ \E thrStarted \in BOOLEAN : AddBenchmarkFromAdded(thrStarted)
    \/ AddBenchmarkFromStarted
    \/ \E j \in JobIdx, code \in {0, 1, NoCode}, signal \in {"", "SIGTERM", "SIGKILL"},
          stderr \in StderrChars, extracted \in BOOLEAN :
          ProcCloseReentrant(j, code, signal, stderr, extracted)

ReentrantSpec == Init /\ [][ReentrantNext]_vars

LiveSpec ==
    /\ Spec
    /\ WF_vars(\E thrStarted \in BOOLEAN : DeferredProcessQueue(thrStarted))
    /\ WF_vars(\E j \in JobIdx : TimeoutFires(j))
    /\ WF_vars(\E j \in JobIdx : GraceFires(j))
    /\ WF_vars(\E j \in JobIdx, spawned \in BOOLEAN : Spawn(j, spawned))
    /\ WF_vars(\E j \in JobIdx : ProcError(j))
    /\ WF_vars(Tick)

\* C33: every enqueued record eventually is completed or failed.
C33_EveryJobTerminates ==
    \A k \in JobIdx :
        (k \in Recs) ~> (k \in Recs /\ queue[k].status \in Terminal)

\* C34: a record whose `completed` event was emitted is completed, with its
\* result and without error, and no `failed` event is emitted for it,
\* whether or not a subscriber of `completed` threw during the emission.
C34_CompletedSurvivesListener ==
    \A j \in Recs :
        EventPos("completed", j) # {} =>
            /\ EventPos("failed", j) = {}
            /\ queue[j].status = "completed"
            /\ queue[j].result = "result"
            /\ queue[j].error = NoError

\* C35: a record whose `started` subscriber threw (running, runBenchmark not
\* called) or whose `added` subscriber threw (pending on an idle queue with
\* no deferred callback) still becomes completed or failed; the processing
\* flag is eventually cleared; and every pending record is eventually
\* started.
C35_ThrowingListenerNoWedge ==
    /\ \A k \in JobIdx :
          (/\ k \in Recs
           /\ \/ queue[k].status = "running" /\ runs[k].phase = "none"
              \/ queue[k].status = "pending" /\ ~isProcessing /\ immediates = 0)
              ~> (k \in Recs /\ queue[k].status \in Terminal)
    /\ isProcessing ~> ~isProcessing
    /\ \A k \in JobIdx :
          (k \in Recs /\ queue[k].status = "pending")
              ~> (k \in Recs /\ queue[k].status # "pending")

\* ---------------------------------------------------------- getQueueStatus
\* GET /api/queue: a call of getQueueStatus() between two macrotasks.
CallGetQueueStatus ==
    /\ call' = Return(Pending("getQueueStatus", Len(queue)), GetQueueStatus(queue))
    /\ UNCHANGED <<queue, runs, isProcessing, immediates, added, events,
                   BENCHMARK_TIMEOUT, files>>

StatusNext == Next \/ CallGetQueueStatus

StatusSpec == Init /\ [][StatusNext]_vars

\* C36: between macrotasks isProcessing is true exactly when one record is
\* running (and no state has more than one); a call of getQueueStatus leaves
\* the records as they are and reports a total that is the number of
\* records and the sum of the four counts.
C36_FlagMatchesRunning ==
    /\ [](isProcessing <=> Cardinality(Running) = 1)
    /\ [](Cardinality(Running) \in {0, 1})
    /\ [][(call'.fn = "getQueueStatus" /\ call' # call) =>
            /\ queue' = queue
            /\ call'.out.total = Len(queue)
            /\ call'.out.total = call'.out.pending + call'.out.running
                                 + call'.out.completed + call'.out.failed]_vars

\* The status of a queue with one failed and one running record.
C36_Witness ==
    /\ Returned("getQueueStatus")
    /\ call.out = [total |-> 2, pending |-> 0, running |-> 1, completed |-> 0,
                   failed |-> 1]
    /\ isProcessing
    /\ Cardinality(Running) = 1

\* C37: parseBenchmarkId applied to generateBenchmarkId(s) returns the task
\* and the modelId of s and, for every field the filename encodes, the value
\* of s: platform, mode, the device or the default of the platform, the
\* dtype if there is one, the batch size (1 when absent), and on the web
\* platform the browser if there is one and headed if it is set.
C37_ParseInvertsGenerate ==
    Returned("generateBenchmarkId") =>
        LET s == call.arg
            r == call.out.parsed
            Of(f) == {r.assigned[k] : k \in {i \in 1..Len(r.assigned) : r.assigned[i].field = f}}
            Is(f, v) == \E a \in Of(f) :
                           v = (IF f = "batchSize"
                                THEN ParseInt(Tail(r.parts[a.token])).value
                                ELSE r.parts[a.token])
            web == s.platform = "web"
        IN  /\ r.has
            /\ r.task = s.task
            /\ r.modelId = s.modelId
            /\ Is("platform", s.platform)
            /\ Is("mode", s.mode)
            /\ Is("device", IF s.device # "" THEN s.device
                            ELSE IF web THEN "webgpu" ELSE "cpu")
            /\ IF s.dtype # "" THEN Is("dtype", s.dtype) ELSE Of("dtype") = {}
            /\ Is("batchSize", IF s.batchSize # 0 THEN s.batchSize ELSE 1)
            /\ IF web /\ s.browser # "" THEN Is("browser", s.browser)
               ELSE Of("browser") = {}
            /\ (Of("headed") # {}) <=> (web /\ s.headed)

\* C38: the settings with the default device of the platform spelled out
\* have the fullPath of the same settings without device, whatever the other
\* fields and the environment.
C38_DefaultDeviceSamePath ==
    Returned("generateBenchmarkPath.device") =>
        call.out.explicit.fullPath = call.out.absent.fullPath

\* C39: for every record the server accepts, the file that appendResult
\* writes lies inside the storage base directory.
C39_PathInsideBaseDir ==
    Returned("getBenchmarkFilePath") =>
        /\ Len(call.out) > Len(BaseDir)
        /\ SubSeq(call.out, 1, Len(BaseDir)) = BaseDir

====
